---- MODULE Spec2Model ----
(***************************************************************************)
(* Go-Chat-App: the connection registry (utils.go), the broadcast          *)
(* dispatcher and presence notifier (broadcast.go) and the per-connection  *)
(* reader and writer goroutines (handlers.go).                             *)
(*                                                                         *)
(* Go primitives are modelled by what they do:                             *)
(*  - sync.Mutex: `mutex` names the goroutine holding it; Lock() is        *)
(*    enabled only when nobody holds it (it is not reentrant).             *)
(*  - an unbuffered channel: a send completes only in one step together    *)
(*    with a receive by a goroutine that is blocked on the receive.        *)
(*  - select { case ch <- v: ... default: ... }: the send case is taken    *)
(*    iff the receiver is blocked on the receive at that instant.          *)
(***************************************************************************)
EXTENDS Integers, Sequences, FiniteSets, TLC

\* ---------------------------------------------------------------- bounds
NumClients == 2
MaxMsgs == 2

Clients == 1..NumClients
MsgIds == 1..MaxMsgs

\* user.Username values offered by the authorisation collaborator
Usernames == {"alice", ""}

\* ---------------------------------------------------------------- tasks
R(c) == <<"reader", c>>
W(c) == <<"writer", c>>
D == <<"dispatcher", 0>>
N == <<"notifier", 0>>
Readers == {R(c) : c \in Clients}
Writers == {W(c) : c \in Clients}
Loops == {D, N}
Tasks == Readers \cup Writers \cup Loops
NoTask == <<"none", 0>>

VARIABLES
    clients,      \* utils.clients: the keys of the registry map
    mutex,        \* utils.mutex: the task holding it, or NoTask
    pc,           \* where each goroutine is
    httpReply,    \* what the websocket request of each connection was answered
    displayName,  \* Client.DisplayName of each Client record
    rmsg,         \* the models.Message a reader is submitting (0: none)
    nextMsg,      \* identity of the next inbound frame read from any socket
    dmsg,         \* msg of the dispatcher's range loop
    todo,         \* clients the range loop of D / N has not produced yet
    dropping,     \* the client D / N passes to DeregisterClient
    activeUsers,  \* activeUsers of the notifier's loop body
    wframe,       \* msg of the writer's loop body
    handed,       \* history: chat messages received from each Client.Send
    wire,         \* history: chat messages written to each Client.Conn
    accepted,     \* history: messages in the order the dispatcher received them
    wasMember,    \* history: whether the task's last delete() removed a key
    regDone,      \* history: clients whose RegisterClient call has returned
    deregDone     \* history: clients for which a DeregisterClient call has returned

\* the accounts service (auth.go) over the in-memory database (db_mock.go) or
\* over the MySQL database (db.go)
VARIABLES
    db,           \* AuthService.db: the implementation of db.DBInterface in use
    users,        \* MockDB.users, or the rows of the table users: username -> models.User
    nextID,       \* MockDB.nextID, or the AUTO_INCREMENT counter of users.id
    nextToken,    \* how many tokens generateToken has produced, plus one
    resp          \* the response to the request or database call handled last

chatVars == <<clients, mutex, pc, httpReply, displayName, rmsg, nextMsg, dmsg, todo,
              dropping, activeUsers, wframe, handed, wire, accepted, wasMember,
              regDone, deregDone>>
authVars == <<db, users, nextID, nextToken, resp>>

\* the message history of the in-memory database (db_mock.go) and its caller
VARIABLES
    arrays,       \* the backing arrays of the slices: array -> its elements (cap of them)
    messages,     \* MockDB.messages: a slice (array, len, cap)
    history,      \* the slice GetChatHistory returned last, in the caller's hands
    savedMsgs     \* history: the messages passed to SaveMessage since the last
                  \* DeleteAllMessages, as they were passed

histVars == <<arrays, messages, history, savedMsgs>>
vars == <<chatVars, authVars, histVars>>

\* ---------------------------------------------------------------- data
Names == {"alice", "Anonymous"}

\* the `sender` field the peer wrote into the m-th inbound frame
FrameSender(m) == IF m % 2 = 1 THEN "alice" ELSE "Anonymous"

\* ws.ReadJSON(&msg): the models.Message decoded from the m-th inbound frame;
\* Sender is whatever the frame says
Message(m) == [id |-> m, sender |-> FrameSender(m)]

\* models.Message / models.ActiveUsersMessage after json.Marshal
NoFrame == [type |-> "none", id |-> 0, sender |-> "", users |-> [n \in Names |-> 0]]
ChatFrame(m) ==
    [type |-> "chat", id |-> m, sender |-> Message(m).sender,
     users |-> [n \in Names |-> 0]]
PresenceFrame(list) == [type |-> "activeUsers", id |-> 0, sender |-> "", users |-> list]

MakeClient(username) == IF username = "" THEN "Anonymous" ELSE username

\* an append that lists each display name once
AppendUser_Dedup(list, n) == [list EXCEPT ![n] = 1]

\* users = append(users, client.DisplayName): the list as a bag of names (the
\* order of a Go map range is unspecified)
AppendUser(list, n) == [list EXCEPT ![n] = @ + 1]

ConnClosed(c) == pc[R(c)] = "closed"

TargetOf(t) == IF t \in Loops THEN dropping[t] ELSE t[2]

\* where a task continues after DeregisterClient returns
AfterDeregister(t) ==
    IF t \in Readers THEN "closed"
    ELSE IF t \in Writers THEN "done"
    ELSE "loop"

\* ------------------------------------------------------- accounts: data
\* bound on successful logins (each draws two tokens from generateToken)
MaxLogins == 2
MaxTokens == 2 * MaxLogins

\* form values of the requests
FormUsernames == {"alice", "bob", ""}
FormPasswords == {"abcd", "wxyz", "abc", ""}
\* the users the tests store by calling SaveUser directly
StoredUsernames == {"alice", "bob"}
StoredPasswords == {"abcd", "wxyz"}
Methods == {"POST", "GET"}

\* a token string, as far as the code looks at it: its text (0: none) and
\* whether white space surrounds the text
Str(n) == [text |-> n, padded |-> FALSE]
Padded(n) == [text |-> n, padded |-> TRUE]
Empty == Str(0)
Blank == Padded(0)
TrimSpace(s) == [s EXCEPT !.padded = FALSE]

\* r.Cookie("session_token") returns http.ErrNoCookie
NoCookie == [text |-> -1, padded |-> FALSE]

\* generateToken(32): 32 random bytes, base64; the n-th value drawn
Token(n) == Str(n)

\* bcrypt: hashPassword / checkPasswordHash
hashPassword(password) == <<"bcrypt", password>>
checkPasswordHash(password, hash) == hash = hashPassword(password)

\* models.User{}
NoUser ==
    [ID |-> 0, Username |-> "", HashedPassword |-> <<>>,
     SessionToken |-> Empty, CSRFToken |-> Empty]

\* what Authorise reads of an *http.Request: the session_token cookie, the
\* X-CSRF-Token header and the csrf_token query parameter
SessionRequest(session, csrfHeader, csrfQuery) ==
    [session |-> session, csrfHeader |-> csrfHeader, csrfQuery |-> csrfQuery]

NoResponse == [handler |-> "none", status |-> 0, err |-> "", cookies |-> <<>>]
\* http.Error(w, ..., status) / w.WriteHeader(status), after the cookies set
Response(handler, status, cookies) ==
    [handler |-> handler, status |-> status, err |-> "", cookies |-> cookies]
\* the error a database call returns
Result(call, err) == [handler |-> call, status |-> 0, err |-> err, cookies |-> <<>>]

\* http.SetCookie(w, &http.Cookie{Name: name, Value: value, ...})
Cookie(name, value) == [name |-> name, value |-> value]

\* ------------------------------------------------ message history: data
\* bound on the messages stored at a time
MaxStored == 3

\* models.Message as the history holds it: sender, content, timestamp (zero
\* or set by the sender)
HistoryMessages ==
    {[sender |-> "user1", content |-> "Hi!", timestamp |-> "zero"],
     [sender |-> "user2", content |-> "Hello!", timestamp |-> "sent"],
     [sender |-> "user1", content |-> "Hello!", timestamp |-> "sent"]}
\* models.Message{}
ZeroMessage == [sender |-> "", content |-> "", timestamp |-> "zero"]
\* the message a caller writes into the slice it was handed
Overwritten == [sender |-> "user2", content |-> "changed", timestamp |-> "sent"]

\* the backing arrays that can be reachable at a time: that of MockDB.messages,
\* that of the returned slice, and the one being allocated
ArrayIds == {1, 2, 3}
\* []models.Message{} and make([]models.Message, 0): no element, no array
EmptySlice == [arr |-> 0, len |-> 0, cap |-> 0]

Init ==
    /\ clients = {}
    /\ mutex = NoTask
    /\ pc = [t \in Tasks |-> IF t \in Readers THEN "start"
                             ELSE IF t \in Writers THEN "none"
                             ELSE "recv"]
    /\ httpReply = [c \in Clients |-> "none"]
    /\ displayName = [c \in Clients |-> "Anonymous"]
    /\ rmsg = [c \in Clients |-> 0]
    /\ nextMsg = 1
    /\ dmsg = 0
    /\ todo = [t \in Loops |-> {}]
    /\ dropping = [t \in Loops |-> 0]
    /\ activeUsers = [n \in Names |-> 0]
    /\ wframe = [c \in Clients |-> NoFrame]
    /\ handed = [c \in Clients |-> <<>>]
    /\ wire = [c \in Clients |-> <<>>]
    /\ accepted = <<>>
    /\ wasMember = [t \in Tasks |-> FALSE]
    /\ regDone = {}
    /\ deregDone = {}
    /\ db = "MockDB"
    /\ users = [n \in {} |-> NoUser]
    /\ nextID = 1
    /\ nextToken = 1
    /\ resp = NoResponse
    /\ arrays = [a \in ArrayIds |-> <<>>]
    /\ messages = EmptySlice
    /\ history = EmptySlice
    /\ savedMsgs = <<>>

\* ------------------------------------------------------ Go primitives
\* a mutex.Lock() that does not wait for the holder
CanLock_NoWait(t) == TRUE

\* mutex.Lock() returns only when no goroutine holds the mutex
CanLock(t) == mutex = NoTask

\* clients[client] = true
RegistryAdd(S, c) == S \cup {c}

\* a delete that removes nothing
RegistryDelete_Noop(S, c) == S

\* delete(clients, client)
RegistryDelete(S, c) == S \ {c}

\* a send that also succeeds while the writer is still writing the last frame
SendReady_Busy(c) == pc[W(c)] \in {"recv", "write"}

\* case client.Send <- messageBytes: the unbuffered send is ready iff the
\* client's writer goroutine is blocked in msg := <-client.Send
SendReady(c) == pc[W(c)] = "recv"

\* for client := range clients: the keys not yet produced and still present
RangeClients(t) == todo[t] \cap clients

\* the range loop ends when no key is left to produce
RangeDone(t) == RangeClients(t) = {}

\* ------------------------------------------------------- persistence
\* the inbound frames whose INSERT the database refuses
RefusedByDB == {m \in MsgIds : m % 2 = 0}

\* db.SaveMessage(msg): the error of the INSERT
SaveMessage(m) == IF m \in RefusedByDB THEN "error" ELSE "nil"

\* a BroadcastMessage that gives up when the message could not be saved
AfterSaveMessage_Fatal(err) == IF err = "nil" THEN "bcast" ELSE "read"

\* BroadcastMessage after SaveMessage: `if err != nil { log.Printf(...) }`
\* and, in either case, on to `broadcast <- msg`
AfterSaveMessage(err) == "bcast"

\* ------------------------------------------- HandleConnections (reader)
\* a handler that answers 401 and then goes on
AfterAuthorise_NoReturn(err) == "upgrade"

\* `if err != nil { http.Error(w, "Unauthorised", 401); return }`
AfterAuthorise(err) == IF err = "nil" THEN "upgrade" ELSE "unauthorised"

\* a handler that goes on with the connection the failed upgrade returned
AfterUpgrade_NoReturn(err) == "reg_lock"

\* `if err != nil { log.Printf(...); return }`, else on to MakeClient and
\* RegisterClient
AfterUpgrade(err) == IF err = "nil" THEN "reg_lock" ELSE "rejected"

Authorise(c) ==
    /\ pc[R(c)] = "start"
    /\ \E err \in {"nil", "unauthorised"} :
          /\ httpReply' = [httpReply EXCEPT ![c] = IF err = "nil" THEN @ ELSE "401"]
          /\ pc' = [pc EXCEPT ![R(c)] = AfterAuthorise(err)]
    /\ UNCHANGED authVars
    /\ UNCHANGED histVars
    /\ UNCHANGED <<clients, mutex, displayName, rmsg, nextMsg, dmsg, todo, dropping,
                   activeUsers, wframe, handed, wire, accepted, wasMember, regDone,
                   deregDone>>

\* upgrader.Upgrade: on success the reply is 101 Switching Protocols and the
\* handler goes on to utils.MakeClient and the call of RegisterClient; on
\* failure the upgrader has replied with an HTTP error
Upgrade(c) ==
    /\ pc[R(c)] = "upgrade"
    /\ \E err \in {"nil", "handshake"} : \E u \in Usernames :
          LET next == AfterUpgrade(err)
          IN  /\ httpReply' = [httpReply EXCEPT ![c] = IF err = "nil" THEN "101" ELSE "http_error"]
              /\ pc' = [pc EXCEPT ![R(c)] = next]
              /\ displayName' = IF next = "reg_lock"
                                  THEN [displayName EXCEPT ![c] = MakeClient(u)]
                                  ELSE displayName
    /\ UNCHANGED authVars
    /\ UNCHANGED histVars
    /\ UNCHANGED <<clients, mutex, rmsg, nextMsg, dmsg, todo, dropping,
                   activeUsers, wframe, handed, wire, accepted, wasMember, regDone,
                   deregDone>>

\* RegisterClient: mutex.Lock(); clients[client] = true
RegisterClient_Lock(c) ==
    /\ pc[R(c)] = "reg_lock"
    /\ CanLock(R(c))
    /\ mutex' = R(c)
    /\ clients' = RegistryAdd(clients, c)
    /\ pc' = [pc EXCEPT ![R(c)] = "reg_notify"]
    /\ UNCHANGED authVars
    /\ UNCHANGED histVars
    /\ UNCHANGED httpReply
    /\ UNCHANGED <<displayName, rmsg, nextMsg, dmsg, todo, dropping, activeUsers,
                   wframe, handed, wire, accepted, wasMember, regDone, deregDone>>

\* a RegisterClient whose send does not wait for the notifier: the signal is
\* given up when the notifier is not blocked in `for range notifyClients`
RegisterClient_Notify_NoWait(c) ==
    /\ pc[R(c)] = "reg_notify"
    /\ pc' = [pc EXCEPT ![R(c)] = "reg_unlock",
                         ![N] = IF pc[N] = "recv" THEN "collect" ELSE @]
    /\ UNCHANGED authVars
    /\ UNCHANGED histVars
    /\ UNCHANGED httpReply
    /\ UNCHANGED <<clients, mutex, displayName, rmsg, nextMsg, dmsg, todo, dropping,
                   activeUsers, wframe, handed, wire, accepted, wasMember, regDone,
                   deregDone>>

\* RegisterClient: notifyClients <- struct{}{} (unbuffered: needs the notifier
\* blocked in `for range notifyClients`)
RegisterClient_Notify(c) ==
    /\ pc[R(c)] = "reg_notify"
    /\ pc[N] = "recv"
    /\ pc' = [pc EXCEPT ![R(c)] = "reg_unlock", ![N] = "collect"]
    /\ UNCHANGED authVars
    /\ UNCHANGED histVars
    /\ UNCHANGED httpReply
    /\ UNCHANGED <<clients, mutex, displayName, rmsg, nextMsg, dmsg, todo, dropping,
                   activeUsers, wframe, handed, wire, accepted, wasMember, regDone,
                   deregDone>>

\* RegisterClient: the deferred mutex.Unlock() and the return; the caller then
\* runs `go handleClientMessages(client)` and enters its read loop (the new
\* goroutine is not yet blocked on client.Send)
RegisterClient_Unlock(c) ==
    /\ pc[R(c)] = "reg_unlock"
    /\ mutex' = NoTask
    /\ regDone' = regDone \cup {c}
    /\ pc' = [pc EXCEPT ![R(c)] = "read", ![W(c)] = "started"]
    /\ UNCHANGED authVars
    /\ UNCHANGED histVars
    /\ UNCHANGED httpReply
    /\ UNCHANGED <<clients, displayName, rmsg, nextMsg, dmsg, todo, dropping,
                   activeUsers, wframe, handed, wire, accepted, wasMember, deregDone>>

\* ws.ReadJSON(&msg) returns a frame and BroadcastMessage(msg) is entered:
\* db.SaveMessage(msg) runs, its error is only logged, and the reader goes on
\* to the send on the broadcast channel
ReadJSON_Ok(c) ==
    /\ pc[R(c)] = "read"
    /\ nextMsg <= MaxMsgs
    /\ LET next == AfterSaveMessage(SaveMessage(nextMsg))
       IN  /\ rmsg' = [rmsg EXCEPT ![c] = IF next = "bcast" THEN nextMsg ELSE 0]
           /\ pc' = [pc EXCEPT ![R(c)] = next]
    /\ nextMsg' = nextMsg + 1
    /\ UNCHANGED authVars
    /\ UNCHANGED histVars
    /\ UNCHANGED httpReply
    /\ UNCHANGED <<clients, mutex, displayName, dmsg, todo, dropping, activeUsers,
                   wframe, handed, wire, accepted, wasMember, regDone, deregDone>>

\* ws.ReadJSON(&msg) returns an error: the reader calls DeregisterClient
ReadJSON_Err(c) ==
    /\ pc[R(c)] = "read"
    /\ pc' = [pc EXCEPT ![R(c)] = "dereg_lock"]
    /\ UNCHANGED authVars
    /\ UNCHANGED histVars
    /\ UNCHANGED httpReply
    /\ UNCHANGED <<clients, mutex, displayName, rmsg, nextMsg, dmsg, todo, dropping,
                   activeUsers, wframe, handed, wire, accepted, wasMember, regDone,
                   deregDone>>

\* BroadcastMessage: broadcast <- msg, received by `for msg := range broadcast`
BroadcastMessage(c) ==
    /\ pc[R(c)] = "bcast"
    /\ pc[D] = "recv"
    /\ dmsg' = rmsg[c]
    /\ accepted' = Append(accepted, rmsg[c])
    /\ rmsg' = [rmsg EXCEPT ![c] = 0]
    /\ pc' = [pc EXCEPT ![R(c)] = "read", ![D] = "lock"]
    /\ UNCHANGED authVars
    /\ UNCHANGED histVars
    /\ UNCHANGED httpReply
    /\ UNCHANGED <<clients, mutex, displayName, nextMsg, todo, dropping, activeUsers,
                   wframe, handed, wire, wasMember, regDone, deregDone>>

\* --------------------------------------------------- DeregisterClient
\* mutex.Lock(); delete(clients, client)
DeregisterClient_Lock(t) ==
    /\ pc[t] = "dereg_lock"
    /\ CanLock(t)
    /\ mutex' = t
    /\ wasMember' = [wasMember EXCEPT ![t] = TargetOf(t) \in clients]
    /\ clients' = RegistryDelete(clients, TargetOf(t))
    /\ pc' = [pc EXCEPT ![t] = "dereg_notify"]
    /\ UNCHANGED authVars
    /\ UNCHANGED histVars
    /\ UNCHANGED httpReply
    /\ UNCHANGED <<displayName, rmsg, nextMsg, dmsg, todo, dropping, activeUsers,
                   wframe, handed, wire, accepted, regDone, deregDone>>

\* notifyClients <- struct{}{}
DeregisterClient_Notify(t) ==
    /\ pc[t] = "dereg_notify"
    /\ pc[N] = "recv"
    /\ pc' = [pc EXCEPT ![t] = "dereg_unlock", ![N] = "collect"]
    /\ UNCHANGED authVars
    /\ UNCHANGED histVars
    /\ UNCHANGED httpReply
    /\ UNCHANGED <<clients, mutex, displayName, rmsg, nextMsg, dmsg, todo, dropping,
                   activeUsers, wframe, handed, wire, accepted, wasMember, regDone,
                   deregDone>>

\* the deferred mutex.Unlock() and the return to the caller
DeregisterClient_Unlock(t) ==
    /\ pc[t] = "dereg_unlock"
    /\ mutex' = NoTask
    /\ deregDone' = deregDone \cup {TargetOf(t)}
    /\ wasMember' = [wasMember EXCEPT ![t] = FALSE]
    /\ pc' = [pc EXCEPT ![t] = AfterDeregister(t)]
    /\ UNCHANGED authVars
    /\ UNCHANGED histVars
    /\ UNCHANGED httpReply
    /\ UNCHANGED <<clients, displayName, rmsg, nextMsg, dmsg, todo, dropping,
                   activeUsers, wframe, handed, wire, accepted, regDone>>

\* ------------------------------------------ handleClientMessages (writer)
\* the goroutine is scheduled and blocks in msg := <-client.Send
Writer_Recv(c) ==
    /\ pc[W(c)] = "started"
    /\ pc' = [pc EXCEPT ![W(c)] = "recv"]
    /\ UNCHANGED authVars
    /\ UNCHANGED histVars
    /\ UNCHANGED httpReply
    /\ UNCHANGED <<clients, mutex, displayName, rmsg, nextMsg, dmsg, todo, dropping,
                   activeUsers, wframe, handed, wire, accepted, wasMember, regDone,
                   deregDone>>

\* client.Conn.WriteMessage succeeds
WriteMessage_Ok(c) ==
    /\ pc[W(c)] = "write"
    /\ ~ConnClosed(c)
    /\ wire' = [wire EXCEPT ![c] = IF wframe[c].type = "chat" THEN Append(@, wframe[c].id) ELSE @]
    /\ wframe' = [wframe EXCEPT ![c] = NoFrame]
    /\ pc' = [pc EXCEPT ![W(c)] = "recv"]
    /\ UNCHANGED authVars
    /\ UNCHANGED histVars
    /\ UNCHANGED httpReply
    /\ UNCHANGED <<clients, mutex, displayName, rmsg, nextMsg, dmsg, todo, dropping,
                   activeUsers, handed, accepted, wasMember, regDone, deregDone>>

\* client.Conn.WriteMessage fails: return, the deferred DeregisterClient runs
WriteMessage_Err(c) ==
    /\ pc[W(c)] = "write"
    /\ wframe' = [wframe EXCEPT ![c] = NoFrame]
    /\ pc' = [pc EXCEPT ![W(c)] = "dereg_lock"]
    /\ UNCHANGED authVars
    /\ UNCHANGED histVars
    /\ UNCHANGED httpReply
    /\ UNCHANGED <<clients, mutex, displayName, rmsg, nextMsg, dmsg, todo, dropping,
                   activeUsers, wire, handed, accepted, wasMember, regDone, deregDone>>


\* ------------------------------------ StartBroadcastListener (dispatcher)
\* after `for msg := range broadcast` produced msg: mutex.Lock() and the
\* start of `for client := range clients`
StartBroadcastListener_Lock ==
    /\ pc[D] = "lock"
    /\ CanLock(D)
    /\ mutex' = D
    /\ todo' = [todo EXCEPT ![D] = clients]
    /\ pc' = [pc EXCEPT ![D] = "loop"]
    /\ UNCHANGED authVars
    /\ UNCHANGED histVars
    /\ UNCHANGED httpReply
    /\ UNCHANGED <<clients, displayName, rmsg, nextMsg, dmsg, dropping, activeUsers,
                   wframe, handed, wire, accepted, wasMember, regDone, deregDone>>

\* select: case client.Send <- messageBytes
StartBroadcastListener_Send(c) ==
    /\ pc[D] = "loop"
    /\ c \in RangeClients(D)
    /\ SendReady(c)
    /\ todo' = [todo EXCEPT ![D] = @ \ {c}]
    /\ handed' = [handed EXCEPT ![c] = Append(@, dmsg)]
    /\ wframe' = [wframe EXCEPT ![c] = ChatFrame(dmsg)]
    /\ pc' = [pc EXCEPT ![W(c)] = "write"]
    /\ UNCHANGED authVars
    /\ UNCHANGED histVars
    /\ UNCHANGED httpReply
    /\ UNCHANGED <<clients, mutex, displayName, rmsg, nextMsg, dmsg, dropping,
                   activeUsers, wire, accepted, wasMember, regDone, deregDone>>

\* select: default: utils.DeregisterClient(client), called with the mutex held
StartBroadcastListener_Drop(c) ==
    /\ pc[D] = "loop"
    /\ c \in RangeClients(D)
    /\ ~SendReady(c)
    /\ todo' = [todo EXCEPT ![D] = @ \ {c}]
    /\ dropping' = [dropping EXCEPT ![D] = c]
    /\ pc' = [pc EXCEPT ![D] = "dereg_lock"]
    /\ UNCHANGED authVars
    /\ UNCHANGED histVars
    /\ UNCHANGED httpReply
    /\ UNCHANGED <<clients, mutex, displayName, rmsg, nextMsg, dmsg, activeUsers,
                   wframe, handed, wire, accepted, wasMember, regDone, deregDone>>

\* the range over clients is exhausted: mutex.Unlock(), back to `range broadcast`
StartBroadcastListener_Unlock ==
    /\ pc[D] = "loop"
    /\ RangeDone(D)
    /\ mutex' = NoTask
    /\ dmsg' = 0
    /\ todo' = [todo EXCEPT ![D] = {}]
    /\ pc' = [pc EXCEPT ![D] = "recv"]
    /\ UNCHANGED authVars
    /\ UNCHANGED histVars
    /\ UNCHANGED httpReply
    /\ UNCHANGED <<clients, displayName, rmsg, nextMsg, dropping, activeUsers,
                   wframe, handed, wire, accepted, wasMember, regDone, deregDone>>

\* -------------------------------------- StartNotifyActiveUsers (notifier)
\* activeUsers := utils.CollectActiveUsers()
\* a CollectActiveUsers that reads the map without taking the mutex
CollectActiveUsers_Lock_Skipped ==
    /\ pc[N] = "collect"
    /\ todo' = [todo EXCEPT ![N] = clients]
    /\ activeUsers' = [n \in Names |-> 0]
    /\ pc' = [pc EXCEPT ![N] = "collecting"]
    /\ UNCHANGED authVars
    /\ UNCHANGED histVars
    /\ UNCHANGED httpReply
    /\ UNCHANGED <<clients, mutex, displayName, rmsg, nextMsg, dmsg, dropping,
                   wframe, handed, wire, accepted, wasMember, regDone, deregDone>>

\* mutex.Lock(); users := []string{}; the start of `for client := range clients`
CollectActiveUsers_Lock ==
    /\ pc[N] = "collect"
    /\ CanLock(N)
    /\ mutex' = N
    /\ todo' = [todo EXCEPT ![N] = clients]
    /\ activeUsers' = [n \in Names |-> 0]
    /\ pc' = [pc EXCEPT ![N] = "collecting"]
    /\ UNCHANGED authVars
    /\ UNCHANGED histVars
    /\ UNCHANGED httpReply
    /\ UNCHANGED <<clients, displayName, rmsg, nextMsg, dmsg, dropping,
                   wframe, handed, wire, accepted, wasMember, regDone, deregDone>>

\* users = append(users, client.DisplayName) for the next key of the range
CollectActiveUsers_Append(c) ==
    /\ pc[N] = "collecting"
    /\ c \in RangeClients(N)
    /\ activeUsers' = AppendUser(activeUsers, displayName[c])
    /\ todo' = [todo EXCEPT ![N] = @ \ {c}]
    /\ UNCHANGED authVars
    /\ UNCHANGED histVars
    /\ UNCHANGED httpReply
    /\ UNCHANGED <<clients, mutex, pc, displayName, rmsg, nextMsg, dmsg, dropping,
                   wframe, handed, wire, accepted, wasMember, regDone, deregDone>>

\* the range is exhausted: return users, the deferred mutex.Unlock()
CollectActiveUsers_Return ==
    /\ pc[N] = "collecting"
    /\ RangeDone(N)
    /\ mutex' = NoTask
    /\ todo' = [todo EXCEPT ![N] = {}]
    /\ pc' = [pc EXCEPT ![N] = "lock"]
    /\ UNCHANGED authVars
    /\ UNCHANGED histVars
    /\ UNCHANGED httpReply
    /\ UNCHANGED <<clients, displayName, rmsg, nextMsg, dmsg, dropping, activeUsers,
                   wframe, handed, wire, accepted, wasMember, regDone, deregDone>>

\* mutex.Lock() and the start of `for client := range clients`
StartNotifyActiveUsers_Lock ==
    /\ pc[N] = "lock"
    /\ CanLock(N)
    /\ mutex' = N
    /\ todo' = [todo EXCEPT ![N] = clients]
    /\ pc' = [pc EXCEPT ![N] = "loop"]
    /\ UNCHANGED authVars
    /\ UNCHANGED histVars
    /\ UNCHANGED httpReply
    /\ UNCHANGED <<clients, displayName, rmsg, nextMsg, dmsg, dropping, activeUsers,
                   wframe, handed, wire, accepted, wasMember, regDone, deregDone>>

\* select: case client.Send <- messageBytes
StartNotifyActiveUsers_Send(c) ==
    /\ pc[N] = "loop"
    /\ c \in RangeClients(N)
    /\ SendReady(c)
    /\ todo' = [todo EXCEPT ![N] = @ \ {c}]
    /\ wframe' = [wframe EXCEPT ![c] = PresenceFrame(activeUsers)]
    /\ pc' = [pc EXCEPT ![W(c)] = "write"]
    /\ UNCHANGED authVars
    /\ UNCHANGED histVars
    /\ UNCHANGED httpReply
    /\ UNCHANGED <<clients, mutex, displayName, rmsg, nextMsg, dmsg, dropping,
                   activeUsers, handed, wire, accepted, wasMember, regDone, deregDone>>

\* select: default: utils.DeregisterClient(client), called with the mutex held
StartNotifyActiveUsers_Drop(c) ==
    /\ pc[N] = "loop"
    /\ c \in RangeClients(N)
    /\ ~SendReady(c)
    /\ todo' = [todo EXCEPT ![N] = @ \ {c}]
    /\ dropping' = [dropping EXCEPT ![N] = c]
    /\ pc' = [pc EXCEPT ![N] = "dereg_lock"]
    /\ UNCHANGED authVars
    /\ UNCHANGED histVars
    /\ UNCHANGED httpReply
    /\ UNCHANGED <<clients, mutex, displayName, rmsg, nextMsg, dmsg, activeUsers,
                   wframe, handed, wire, accepted, wasMember, regDone, deregDone>>

\* the range over clients is exhausted: mutex.Unlock(), back to
\* `range notifyClients`
StartNotifyActiveUsers_Unlock ==
    /\ pc[N] = "loop"
    /\ RangeDone(N)
    /\ mutex' = NoTask
    /\ activeUsers' = [n \in Names |-> 0]
    /\ todo' = [todo EXCEPT ![N] = {}]
    /\ pc' = [pc EXCEPT ![N] = "recv"]
    /\ UNCHANGED authVars
    /\ UNCHANGED histVars
    /\ UNCHANGED httpReply
    /\ UNCHANGED <<clients, displayName, rmsg, nextMsg, dmsg, dropping,
                   wframe, handed, wire, accepted, wasMember, regDone, deregDone>>

\* ------------------------------------------------ accounts: MockDB calls
\* each call runs under MockDB.mu; the result is the error returned and the
\* users map and nextID after the call

\* a SaveUser that overwrites an existing user
SaveUser_Overwrite(username, hashedPassword) ==
    [err |-> "nil",
     users |-> [n \in DOMAIN users \cup {username} |->
                   IF n = username
                   THEN [ID |-> nextID, Username |-> username,
                         HashedPassword |-> hashedPassword,
                         SessionToken |-> Empty, CSRFToken |-> Empty]
                   ELSE users[n]],
     nextID |-> nextID + 1]

SaveUser(username, hashedPassword) ==
    IF username \in DOMAIN users
    THEN [err |-> "username already exists", users |-> users, nextID |-> nextID]
    ELSE [err |-> "nil",
          users |-> [n \in DOMAIN users \cup {username} |->
                        IF n = username
                        THEN [ID |-> nextID, Username |-> username,
                              HashedPassword |-> hashedPassword,
                              SessionToken |-> Empty, CSRFToken |-> Empty]
                        ELSE users[n]],
          nextID |-> nextID + 1]

GetUserByUsername(username) ==
    IF username \in DOMAIN users
    THEN [err |-> "nil", user |-> users[username]]
    ELSE [err |-> "user not found", user |-> NoUser]

\* `for uname, user := range m.users { if user.ID == userID { ... break } }`:
\* the usernames the loop may stop at
UsernamesWithID(userID) == {n \in DOMAIN users : users[n].ID = userID}

\* an update that stores the two tokens in each other's place
UpdateSessionAndCSRF_Swapped(userID, sessionToken, csrfToken) ==
    IF UsernamesWithID(userID) \subseteq {""}
    THEN [err |-> "user not found", users |-> users]
    ELSE LET uname == CHOOSE n \in UsernamesWithID(userID) : n # ""
         IN  [err |-> "nil",
              users |-> [users EXCEPT ![uname].SessionToken = csrfToken,
                                      ![uname].CSRFToken = sessionToken]]

\* usernameToUpdate == "" is taken for `no user has this id`
UpdateSessionAndCSRF(userID, sessionToken, csrfToken) ==
    IF UsernamesWithID(userID) \subseteq {""}
    THEN [err |-> "user not found", users |-> users]
    ELSE LET uname == CHOOSE n \in UsernamesWithID(userID) : n # ""
         IN  [err |-> "nil",
              users |-> [users EXCEPT ![uname].SessionToken = sessionToken,
                                      ![uname].CSRFToken = csrfToken]]

\* a ClearSession that reports success and clears nothing
ClearSession_Noop(userID) == [err |-> "nil", users |-> users]

ClearSession(userID) ==
    IF UsernamesWithID(userID) \subseteq {""}
    THEN [err |-> "user not found", users |-> users]
    ELSE LET uname == CHOOSE n \in UsernamesWithID(userID) : n # ""
         IN  [err |-> "nil",
              users |-> [users EXCEPT ![uname].SessionToken = Empty,
                                      ![uname].CSRFToken = Empty]]

\* GetUserBySessionToken: the range over the map returns the first user whose
\* trimmed session token equals the trimmed argument, the argument not being
\* ""; these are the usernames it may return (none: "session token not found")
GetUserBySessionToken(sessionToken) ==
    {n \in DOMAIN users :
        /\ TrimSpace(users[n].SessionToken) = TrimSpace(sessionToken)
        /\ sessionToken # Empty}

\* ------------------------------------------------ accounts: MySQLDB calls
\* the statements of db.go on the table users of the schema (username UNIQUE,
\* id AUTO_INCREMENT, the tokens '' by default), the connection being up

\* INSERT INTO users (username, hashed_password) VALUES (?, ?)
MySQLDB_SaveUser(username, hashedPassword) ==
    IF username \in DOMAIN users
    THEN [err |-> "username already exists: Duplicate entry", users |-> users,
          nextID |-> nextID]
    ELSE [err |-> "nil",
          users |-> [n \in DOMAIN users \cup {username} |->
                        IF n = username
                        THEN [ID |-> nextID, Username |-> username,
                              HashedPassword |-> hashedPassword,
                              SessionToken |-> Empty, CSRFToken |-> Empty]
                        ELSE users[n]],
          nextID |-> nextID + 1]

\* SELECT ... FROM users WHERE username = ?; Scan returns sql.ErrNoRows for
\* no row, wrapped by fmt.Errorf("user not found: %w", err)
MySQLDB_GetUserByUsername(username) ==
    IF username \in DOMAIN users
    THEN [err |-> "nil", user |-> users[username]]
    ELSE [err |-> "user not found: sql: no rows in result set", user |-> NoUser]

\* UPDATE users SET session_token = ?, csrf_token = ? WHERE id = ?
MySQLDB_UpdateSessionAndCSRF(userID, sessionToken, csrfToken) ==
    [err |-> "nil",
     users |-> [n \in DOMAIN users |->
                   IF users[n].ID = userID
                   THEN [users[n] EXCEPT !.SessionToken = sessionToken,
                                         !.CSRFToken = csrfToken]
                   ELSE users[n]]]

\* UPDATE users SET session_token = '', csrf_token = '' WHERE id = ?
MySQLDB_ClearSession(userID) ==
    [err |-> "nil",
     users |-> [n \in DOMAIN users |->
                   IF users[n].ID = userID
                   THEN [users[n] EXCEPT !.SessionToken = Empty, !.CSRFToken = Empty]
                   ELSE users[n]]]

\* SELECT ... FROM users WHERE session_token = ?: the usernames of the rows
\* the query may return first (none: sql.ErrNoRows, wrapped)
MySQLDB_GetUserBySessionToken(sessionToken) ==
    {n \in DOMAIN users : users[n].SessionToken = sessionToken}

\* ---------------------------------------- accounts: the db.DBInterface in use
\* errors.Is(err, sql.ErrNoRows): true of the errors that wrap it with %w,
\* false of the errors made by errors.New
ErrorsIs_ErrNoRows(err) ==
    err \in {"user not found: sql: no rows in result set",
             "session token not found: sql: no rows in result set"}

a_db_SaveUser(username, hashedPassword) ==
    IF db = "MockDB" THEN SaveUser(username, hashedPassword)
    ELSE MySQLDB_SaveUser(username, hashedPassword)

a_db_GetUserByUsername(username) ==
    IF db = "MockDB" THEN GetUserByUsername(username)
    ELSE MySQLDB_GetUserByUsername(username)

a_db_UpdateSessionAndCSRF(userID, sessionToken, csrfToken) ==
    IF db = "MockDB" THEN UpdateSessionAndCSRF(userID, sessionToken, csrfToken)
    ELSE MySQLDB_UpdateSessionAndCSRF(userID, sessionToken, csrfToken)

a_db_ClearSession(userID) ==
    IF db = "MockDB" THEN ClearSession(userID) ELSE MySQLDB_ClearSession(userID)

a_db_GetUserBySessionToken(sessionToken) ==
    IF db = "MockDB" THEN GetUserBySessionToken(sessionToken)
    ELSE MySQLDB_GetUserBySessionToken(sessionToken)

\* --------------------------------------------- accounts: AuthService
\* services.InitialiseServices: the service is built over the MySQL database
\* (auth.NewAuthService(mySQLDB)) instead of the mock of setupAuthService
InitialiseServices ==
    /\ db = "MockDB"
    /\ resp = NoResponse
    /\ DOMAIN users = {}
    /\ db' = "MySQLDB"
    /\ UNCHANGED <<users, nextID, nextToken, resp>>
    /\ UNCHANGED chatVars
    /\ UNCHANGED histVars

\* AuthService.Authorise(r): the usernames it may return the user of, or
\* {} when it returns an error
Authorised(r) ==
    IF r.session = NoCookie \/ r.session = Empty
    THEN {}
    ELSE LET csrfToken == IF r.csrfHeader # Empty THEN r.csrfHeader ELSE r.csrfQuery
         IN  IF csrfToken = Empty
             THEN {}
             ELSE {n \in a_db_GetUserBySessionToken(r.session) :
                      users[n].CSRFToken = csrfToken}

\* Authorise returns an error for some user GetUserBySessionToken may return
MayBeRefused(r) ==
    \/ Authorised(r) = {}
    \/ \E n \in a_db_GetUserBySessionToken(r.session) : n \notin Authorised(r)

\* AuthService.Register
Register(method, username, password) ==
    /\ IF method # "POST"
       THEN resp' = Response("Register", 405, <<>>) /\ UNCHANGED <<users, nextID>>
       ELSE IF Len(username) < 1 \/ Len(password) < 4
       THEN resp' = Response("Register", 406, <<>>) /\ UNCHANGED <<users, nextID>>
       ELSE IF a_db_GetUserByUsername(username).err = "nil"
       THEN resp' = Response("Register", 409, <<>>) /\ UNCHANGED <<users, nextID>>
       ELSE LET saved == a_db_SaveUser(username, hashPassword(password))
            IN  /\ users' = saved.users
                /\ nextID' = saved.nextID
                /\ resp' = Response("Register", IF saved.err = "nil" THEN 201 ELSE 500, <<>>)
    /\ UNCHANGED <<db, nextToken>>
    /\ UNCHANGED chatVars
    /\ UNCHANGED histVars

\* if !errors.Is(err, sql.ErrNoRows) { 401 } else { 500 }
LoginUser_LookupFailed(err) == IF ~ErrorsIs_ErrNoRows(err) THEN 401 ELSE 500

\* AuthService.LoginUser
LoginUser(method, username, password) ==
    LET found == a_db_GetUserByUsername(username)
        sessionToken == Token(nextToken)
        csrfToken == Token(nextToken + 1)
        cookies == <<Cookie("session_token", sessionToken),
                     Cookie("csrf_token", csrfToken)>>
        updated == a_db_UpdateSessionAndCSRF(found.user.ID, sessionToken, csrfToken)
    IN  /\ IF method # "POST"
           THEN resp' = Response("LoginUser", 405, <<>>) /\ UNCHANGED <<users, nextToken>>
           ELSE IF username = "" \/ password = ""
           THEN resp' = Response("LoginUser", 400, <<>>) /\ UNCHANGED <<users, nextToken>>
           ELSE IF found.err # "nil"
           THEN /\ resp' = Response("LoginUser", LoginUser_LookupFailed(found.err), <<>>)
                /\ UNCHANGED <<users, nextToken>>
           ELSE IF ~checkPasswordHash(password, found.user.HashedPassword)
           THEN resp' = Response("LoginUser", 401, <<>>) /\ UNCHANGED <<users, nextToken>>
           ELSE /\ nextToken + 1 <= MaxTokens
                /\ nextToken' = nextToken + 2
                /\ users' = updated.users
                /\ resp' = Response("LoginUser", IF updated.err = "nil" THEN 200 ELSE 500, cookies)
        /\ UNCHANGED <<db, nextID>>
        /\ UNCHANGED chatVars
        /\ UNCHANGED histVars

\* AuthService.LogoutUser
LogoutUser(method, session, csrfHeader, csrfQuery) ==
    LET r == SessionRequest(session, csrfHeader, csrfQuery)
        cookies == <<Cookie("session_token", Empty), Cookie("csrf_token", Empty)>>
    IN  /\ \/ /\ MayBeRefused(r)
              /\ resp' = Response("LogoutUser", 401, <<>>)
              /\ UNCHANGED users
           \/ \E n \in Authorised(r) :
                 LET cleared == a_db_ClearSession(users[n].ID)
                 IN  /\ users' = cleared.users
                     /\ resp' = Response("LogoutUser", IF cleared.err = "nil" THEN 200 ELSE 500,
                                         cookies)
        /\ UNCHANGED <<db, nextID, nextToken>>
        /\ UNCHANGED chatVars
        /\ UNCHANGED histVars

\* AuthService.Profile
Profile(method, session, csrfHeader, csrfQuery) ==
    LET r == SessionRequest(session, csrfHeader, csrfQuery)
    IN  /\ IF method # "POST"
           THEN resp' = Response("Profile", 405, <<>>)
           ELSE \/ MayBeRefused(r) /\ resp' = Response("Profile", 401, <<>>)
                \/ Authorised(r) # {} /\ resp' = Response("Profile", 200, <<>>)
        /\ UNCHANGED <<db, users, nextID, nextToken>>
        /\ UNCHANGED chatVars
        /\ UNCHANGED histVars

\* a direct MockDB.SaveUser call (as the tests make to set a user up)
DB_SaveUser(username, password) ==
    LET saved == SaveUser(username, hashPassword(password))
    IN  /\ db = "MockDB"
        /\ users' = saved.users
        /\ nextID' = saved.nextID
        /\ resp' = Result("SaveUser", saved.err)
        /\ UNCHANGED <<db, nextToken>>
        /\ UNCHANGED chatVars
        /\ UNCHANGED histVars

\* the token strings a request may carry: the tokens issued so far, with and
\* without surrounding white space, the empty and the blank string
IssuedTokens == {Token(n) : n \in 1..(nextToken - 1)}
SessionCookies ==
    {NoCookie, Empty, Blank} \cup IssuedTokens \cup {Padded(t.text) : t \in IssuedTokens}
CsrfValues == {Empty} \cup IssuedTokens

\* ------------------------------------------ message history: Go slices
\* the elements of a slice
Elems(sl) == IF sl.len = 0 THEN <<>> ELSE SubSeq(arrays[sl.arr], 1, sl.len)

\* an array no live slice refers to
FreeArray == CHOOSE a \in ArrayIds : a \notin {messages.arr, history.arr}

\* what the garbage collector leaves of the arrays h when only the slices
\* of `live` refer to them
Collect(h, live) ==
    [a \in ArrayIds |-> IF a \in {sl.arr : sl \in live} THEN h[a] ELSE <<>>]

\* append(sl, x): in place while the capacity lasts, else into a new array of
\* twice the capacity; the slice and the arrays after it
AppendSlice(sl, x) ==
    IF sl.len < sl.cap
    THEN [slice |-> [sl EXCEPT !.len = sl.len + 1],
          arrays |-> [arrays EXCEPT ![sl.arr][sl.len + 1] = x]]
    ELSE LET cap == IF sl.cap = 0 THEN 1 ELSE 2 * sl.cap
         IN  [slice |-> [arr |-> FreeArray, len |-> sl.len + 1, cap |-> cap],
              arrays |-> [arrays EXCEPT ![FreeArray] =
                            [i \in 1..cap |->
                               IF i <= sl.len THEN arrays[sl.arr][i]
                               ELSE IF i = sl.len + 1 THEN x ELSE ZeroMessage]]]

\* a GetChatHistory that returns m.messages itself
CopySlice_Shared(sl) == [slice |-> sl, arrays |-> arrays]

\* history := make([]models.Message, len(sl)); copy(history, sl)
CopySlice(sl) ==
    IF sl.len = 0
    THEN [slice |-> EmptySlice, arrays |-> arrays]
    ELSE [slice |-> [arr |-> FreeArray, len |-> sl.len, cap |-> sl.len],
          arrays |-> [arrays EXCEPT ![FreeArray] = Elems(sl)]]

\* if msg.Timestamp.IsZero() { msg.Timestamp = time.Now() }
Stamped(msg) ==
    IF msg.timestamp = "zero" THEN [msg EXCEPT !.timestamp = "now"] ELSE msg

\* ---------------------------------------- message history: MockDB calls
\* MockDB.SaveMessage(msg)
MockDB_SaveMessage(msg) ==
    LET appended == AppendSlice(messages, Stamped(msg))
    IN  /\ messages.len < MaxStored
        /\ messages' = appended.slice
        /\ arrays' = Collect(appended.arrays, {appended.slice, history})
        /\ savedMsgs' = Append(savedMsgs, msg)
        /\ UNCHANGED history
        /\ UNCHANGED <<chatVars, authVars>>

\* MockDB.GetChatHistory(); the caller drops the slice it held before
MockDB_GetChatHistory ==
    LET copied == CopySlice(messages)
    IN  /\ history' = copied.slice
        /\ arrays' = Collect(copied.arrays, {messages, copied.slice})
        /\ UNCHANGED <<messages, savedMsgs>>
        /\ UNCHANGED <<chatVars, authVars>>

\* MockDB.DeleteAllMessages(): m.messages = []models.Message{}
MockDB_DeleteAllMessages ==
    /\ messages' = EmptySlice
    /\ arrays' = Collect(arrays, {history})
    /\ savedMsgs' = <<>>
    /\ UNCHANGED history
    /\ UNCHANGED <<chatVars, authVars>>

\* the caller writes history[i] = Overwritten into the slice it was handed
ChangeReturned(i) ==
    /\ i \in 1..history.len
    /\ arrays' = [arrays EXCEPT ![history.arr][i] = Overwritten]
    /\ UNCHANGED <<messages, history, savedMsgs>>
    /\ UNCHANGED <<chatVars, authVars>>

\* ------------------------------------------------------- specification
\* the steps a goroutine takes by itself once it is scheduled
ReaderStep(c) ==
    \/ RegisterClient_Lock(c)
    \/ RegisterClient_Notify(c)
    \/ RegisterClient_Unlock(c)
    \/ BroadcastMessage(c)

WriterStep(c) ==
    \/ Writer_Recv(c)
    \/ WriteMessage_Ok(c)

DispatcherStep ==
    \/ StartBroadcastListener_Lock
    \/ \E c \in Clients : StartBroadcastListener_Send(c)
    \/ \E c \in Clients : StartBroadcastListener_Drop(c)
    \/ StartBroadcastListener_Unlock

NotifierStep ==
    \/ CollectActiveUsers_Lock
    \/ \E c \in Clients : CollectActiveUsers_Append(c)
    \/ CollectActiveUsers_Return
    \/ StartNotifyActiveUsers_Lock
    \/ \E c \in Clients : StartNotifyActiveUsers_Send(c)
    \/ \E c \in Clients : StartNotifyActiveUsers_Drop(c)
    \/ StartNotifyActiveUsers_Unlock

DeregisterStep(t) ==
    \/ DeregisterClient_Lock(t)
    \/ DeregisterClient_Notify(t)
    \/ DeregisterClient_Unlock(t)

\* what the peers and the network decide
Environment(c) ==
    \/ Authorise(c)
    \/ Upgrade(c)
    \/ ReadJSON_Ok(c)
    \/ ReadJSON_Err(c)
    \/ WriteMessage_Err(c)

Next ==
    \/ \E c \in Clients : Environment(c)
    \/ \E c \in Clients : ReaderStep(c)
    \/ \E c \in Clients : WriterStep(c)
    \/ \E t \in Tasks : DeregisterStep(t)
    \/ DispatcherStep
    \/ NotifierStep

Spec == Init /\ [][Next]_vars

\* The Go scheduler runs every runnable goroutine: a step that stays enabled is
\* eventually taken.  Nothing is assumed of the peers and the network.
Fairness ==
    /\ \A c \in Clients : WF_vars(ReaderStep(c))
    /\ \A c \in Clients : WF_vars(WriterStep(c))
    /\ \A t \in Tasks : WF_vars(DeregisterStep(t))
    /\ WF_vars(DispatcherStep)
    /\ WF_vars(NotifierStep)

FairSpec == Spec /\ Fairness

\* the accounts service: the requests arrive one after the other
AuthNext ==
    \/ InitialiseServices
    \/ \E m \in Methods : \E u \in FormUsernames : \E p \in FormPasswords :
          Register(m, u, p)
    \/ \E m \in Methods : \E u \in FormUsernames : \E p \in FormPasswords :
          LoginUser(m, u, p)
    \/ \E m \in Methods : \E s \in SessionCookies : \E h, q \in CsrfValues :
          LogoutUser(m, s, h, q)
    \/ \E m \in Methods : \E s \in SessionCookies : \E h, q \in CsrfValues :
          Profile(m, s, h, q)
    \/ \E u \in StoredUsernames : \E p \in StoredPasswords : DB_SaveUser(u, p)

AuthSpec == Init /\ [][AuthNext]_vars

\* the message history of the mock database: the calls arrive one after the
\* other (each runs under MockDB.mu)
HistoryNext ==
    \/ \E msg \in HistoryMessages : MockDB_SaveMessage(msg)
    \/ MockDB_GetChatHistory
    \/ MockDB_DeleteAllMessages
    \/ \E i \in 1..MaxStored : ChangeReturned(i)

HistorySpec == Init /\ [][HistoryNext]_vars

\* ------------------------------------------------------------- claims
WaitsForMutex(t) == pc[t] \in {"reg_lock", "dereg_lock", "lock", "collect"}
SendingSignal(t) == pc[t] \in {"reg_notify", "dereg_notify"}
InSeq(x, seq) == \E i \in 1..Len(seq) : seq[i] = x

\* position of x in seq (0 when absent)
PosIn(x, seq) == IF InSeq(x, seq) THEN CHOOSE i \in 1..Len(seq) : seq[i] = x ELSE 0
IsSubSeq(sub, seq) ==
    /\ \A i \in 1..Len(sub) : InSeq(sub[i], seq)
    /\ \A i, j \in 1..Len(sub) : i < j => PosIn(sub[i], seq) < PosIn(sub[j], seq)
IsPrefix(pre, seq) ==
    /\ Len(pre) <= Len(seq)
    /\ \A i \in 1..Len(pre) : pre[i] = seq[i]
\* seq is accepted[i..j] for some i, j
IsSlice(sub, seq) ==
    \/ sub = <<>>
    \/ \E i \in 1..Len(seq) :
          /\ i + Len(sub) - 1 <= Len(seq)
          /\ \A k \in 1..Len(sub) : sub[k] = seq[i + k - 1]
Before(x, y, seq) == InSeq(x, seq) /\ InSeq(y, seq) /\ PosIn(x, seq) < PosIn(y, seq)
\* display names, with multiplicity, of the clients of S
NamesOf(S) == [n \in Names |-> Cardinality({c \in S : displayName[c] = n})]

AllReady == \A c \in clients : pc[W(c)] = "recv"

\* clients the dispatcher or the notifier has found not ready and is passing
\* to DeregisterClient
BeingDropped ==
    {dropping[t] : t \in {l \in Loops :
                            pc[l] \in {"dereg_lock", "dereg_notify", "dereg_unlock"}}}

\* C1: the registry never deadlocks: no task waits for the mutex it holds
\* itself, and no task holds the mutex blocked on the presence-signal send
\* while the only receiver, the notifier, waits for that mutex.
C1_NoDeadlock ==
    /\ \A t \in Tasks : ~(WaitsForMutex(t) /\ mutex = t)
    /\ \A t \in Tasks : ~(SendingSignal(t) /\ mutex = t /\ WaitsForMutex(N))

\* C2: drop-on-backpressure: once the dispatcher has found client c not ready
\* and calls DeregisterClient(c), c is eventually out of the registry and the
\* dispatcher has gone on with its loop.
C2_DropRemovesClient ==
    \A c \in Clients :
        (pc[D] = "dereg_lock" /\ dropping[D] = c)
            ~> (c \notin clients /\ pc[D] # "dereg_lock")

\* C3: a client that is not ready never blocks the others: when the dispatcher
\* finds client b not ready while fanning out message m and client c is still
\* to be served, c is eventually handed m, unless c leaves the registry or is
\* itself found not ready.
C3_OthersStillServed ==
    \A b \in Clients : \A c \in Clients \ {b} : \A m \in MsgIds :
        (pc[D] = "dereg_lock" /\ dropping[D] = b /\ dmsg = m /\ c \in RangeClients(D))
            ~> \/ InSeq(m, handed[c])
               \/ c \notin clients
               \/ (pc[D] = "dereg_lock" /\ dropping[D] = c)

\* C4: delivery completeness under no backpressure: a message that a reader
\* submits (it is in BroadcastMessage) while every registered client's writer
\* is blocked on its Send channel is eventually handed to each of those
\* clients, unless the client leaves the registry or some registered writer
\* stops being ready.
C4_DeliveredWhenReady ==
    \A s \in Clients : \A c \in Clients : \A m \in MsgIds :
        (pc[R(s)] = "bcast" /\ rmsg[s] = m /\ c \in clients /\ AllReady)
            ~> (InSeq(m, handed[c]) \/ c \notin clients \/ ~AllReady)

\* C4, the part that holds: when the dispatcher ends the fan-out of a message
\* (it unlocks the mutex), every registered client has been handed that message
\* as its latest chat message, and the messages handed to a client so far are a
\* gap-free run of the messages in the order the dispatcher accepted them.
C4_FanoutComplete ==
    [][/\ (pc[D] = "loop" /\ pc'[D] = "recv") =>
              \A c \in clients :
                  Len(handed[c]) > 0 /\ handed[c][Len(handed[c])] = dmsg
       /\ \A c \in Clients : IsSlice(handed'[c], accepted')]_vars

\* C5: total order of chat fan-out: the messages handed to a client follow the
\* order in which the dispatcher accepted them, the writer writes them to the
\* wire in the order they were handed, and no two clients see two messages in
\* opposite orders.
C5_TotalOrder ==
    /\ \A c \in Clients : IsSubSeq(handed[c], accepted)
    /\ \A c \in Clients : IsPrefix(wire[c], handed[c])
    /\ \A c1, c2 \in Clients : \A m1, m2 \in MsgIds :
          /\ Before(m1, m2, handed[c1]) => ~Before(m2, m1, handed[c2])
          /\ Before(m1, m2, wire[c1]) => ~Before(m2, m1, wire[c2])

\* one client has two messages on its wire and another was handed both as well
C5_Witness ==
    \E c1, c2 \in Clients :
        c1 # c2 /\ Len(wire[c1]) >= 2 /\ Len(handed[c2]) >= 2

\* C6: registry consistency: whenever no registry call is in progress, and in
\* particular in the snapshot the notifier takes, CollectActiveUsers yields the
\* display names, with multiplicity, of exactly the clients whose RegisterClient
\* has returned and for which no DeregisterClient has returned.
C6_RegistryConsistency ==
    [][/\ (pc[N] = "collecting" /\ pc'[N] = "lock") =>
              activeUsers' = NamesOf(regDone \ deregDone)
       /\ mutex' = NoTask => NamesOf(clients)' = NamesOf(regDone \ deregDone)']_vars

\* the notifier has taken a snapshot after a deregistration, with a client left
C6_Witness ==
    /\ pc[N] = "lock"
    /\ deregDone # {}
    /\ regDone \ deregDone # {}
    /\ activeUsers = NamesOf(regDone \ deregDone)

\* C7: presence correctness: when a RegisterClient or DeregisterClient call has
\* signalled and is returning, every client then registered is eventually
\* handed a presence snapshot or leaves the registry.
C7_PresenceDelivered ==
    \A c \in Clients :
        (c \in clients /\ \E t \in Tasks : pc[t] \in {"reg_unlock", "dereg_unlock"})
            ~> (c \notin clients \/ wframe[c].type = "activeUsers")

\* C8: a DeregisterClient call for a client that is not in the registry emits
\* no presence signal: every signal sent by DeregisterClient comes from a call
\* whose delete removed a member.
C8_NoSignalWhenAbsent ==
    [][\A t \in Tasks :
          (pc[t] = "dereg_notify" /\ pc'[t] = "dereg_unlock") => wasMember[t]]_vars

\* C9: once a DeregisterClient call for a client has returned, the client is
\* never a registry member again, and nothing is handed to the Send channel of
\* a client that was deregistered or found not ready.
C9_NoDeliveryAfterDeregister ==
    [][/\ \A c \in deregDone : c \notin clients'
       /\ \A c \in deregDone \cup BeingDropped :
             ~(pc[W(c)] = "recv" /\ pc'[W(c)] = "write")]_vars

\* the dispatcher is fanning out a message to a registered client while a
\* deregistered client's writer is still blocked on its Send channel
C9_Witness ==
    /\ pc[D] = "loop"
    /\ \E b \in deregDone : \E a \in clients \ {b} :
          /\ InSeq(dmsg, handed[a])
          /\ ~InSeq(dmsg, handed[b])
          /\ pc[W(b)] = "recv"

\* C10: BroadcastMessage always returns: a reader blocked in the send on the
\* broadcast channel eventually is back in its read loop.
C10_SubmitReturns ==
    \A c \in Clients : (pc[R(c)] = "bcast") ~> (pc[R(c)] = "read")

\* C11: a persistence failure is not fatal: whatever SaveMessage returned for
\* a frame, the reader goes on to submit that message and stays registered;
\* the dispatcher accepts it; and when its fan-out ends every registered client
\* was handed it, for refused messages exactly as for stored ones.
C11_SaveFailureNonFatal ==
    [][/\ nextMsg' # nextMsg =>
              /\ \E c \in Clients : pc'[R(c)] = "bcast" /\ rmsg'[c] = nextMsg
              /\ clients' = clients
       /\ \A c \in Clients :
              (pc[R(c)] = "bcast" /\ pc'[R(c)] = "read") =>
                  /\ accepted' = Append(accepted, rmsg[c])
                  /\ dmsg' = rmsg[c]
                  /\ clients' = clients
       /\ (pc[D] = "loop" /\ pc'[D] = "recv") =>
              \A c \in clients : InSeq(dmsg, handed[c])]_vars

\* both clients are registered and were handed a message the database refused
C11_Witness ==
    \E m \in RefusedByDB :
        \A c \in Clients : c \in clients /\ InSeq(m, handed[c])

\* the variables a rejected request must leave alone
RegistryAndChannels ==
    <<clients, mutex, displayName, rmsg, nextMsg, dmsg, todo, dropping, activeUsers,
      wframe, handed, wire, accepted, wasMember, regDone, deregDone>>
OnlyReaderMoves(c) == \A t \in Tasks \ {R(c)} : pc'[t] = pc[t]

\* C12: an authorisation failure rejects before any state change: a handler
\* whose Authorise failed has answered 401; the step that answers 401 changes
\* nothing but the handler's own position, which is
\* the end of the handler; a connection answered 401 is never upgraded, never
\* gets a Client in the registry, is never the subject of a RegisterClient or
\* DeregisterClient call (no presence signal) and has no read loop and no
\* writer goroutine.
C12_AuthFailureRejects ==
    [][\A c \in Clients :
          /\ (httpReply[c] # "401" /\ httpReply'[c] = "401") =>
                 /\ UNCHANGED RegistryAndChannels
                 /\ OnlyReaderMoves(c)
                 /\ \A d \in Clients \ {c} : httpReply'[d] = httpReply[d]
          /\ pc'[R(c)] = "unauthorised" => httpReply'[c] = "401"
          /\ httpReply'[c] = "401" =>
                 /\ pc'[R(c)] = "unauthorised"
                 /\ pc'[W(c)] = "none"
                 /\ c \notin clients' \cup regDone' \cup deregDone'
                 /\ \A t \in Loops : pc'[t] = "loop" => c \notin todo'[t]]_vars

\* one connection was answered 401 while the other is registered and served
C12_Witness ==
    \E c \in Clients : \E d \in Clients \ {c} :
        httpReply[c] = "401" /\ d \in clients /\ Len(handed[d]) > 0

\* C13: an upgrade failure has no side effects: the step in which
\* upgrader.Upgrade fails changes nothing but the reply and the handler's own
\* position, which is the end of the handler; the registry, the presence
\* signal channel and the broadcast channel are untouched, and no Client, read
\* loop or writer goroutine ever exists for that connection.
C13_UpgradeFailureNoEffect ==
    [][\A c \in Clients :
          /\ (httpReply[c] # "http_error" /\ httpReply'[c] = "http_error") =>
                 /\ UNCHANGED RegistryAndChannels
                 /\ OnlyReaderMoves(c)
                 /\ \A d \in Clients \ {c} : httpReply'[d] = httpReply[d]
          /\ pc'[R(c)] = "rejected" => httpReply'[c] = "http_error"
          /\ httpReply'[c] = "http_error" =>
                 /\ pc'[R(c)] = "rejected"
                 /\ pc'[W(c)] = "none"
                 /\ c \notin clients' \cup regDone' \cup deregDone'
                 /\ \A t \in Loops : pc'[t] = "loop" => c \notin todo'[t]]_vars

\* one connection failed to upgrade while the other is registered and served
C13_Witness ==
    \E c \in Clients : \E d \in Clients \ {c} :
        httpReply[c] = "http_error" /\ d \in clients /\ Len(handed[d]) > 0

\* C14: connection close terminates both tasks: once the reader of a
\* connection has hit a read error, deregistered its client and closed the
\* socket, the writer goroutine of that connection eventually terminates; in
\* particular a writer blocked in `<-client.Send` of a closed connection does
\* not stay there for ever.
C14_WriterTerminates ==
    \A c \in Clients :
        (pc[R(c)] = "closed" /\ pc[W(c)] = "recv") ~> (pc[W(c)] = "done")

\* C15: a transport failure on one connection never stops the process: under
\* every interleaving of read errors, write errors and backpressure drops the
\* dispatcher and the notifier keep running, that is, each of them is again
\* and again back at the receive of its channel.
C15_LoopsKeepRunning ==
    \A t \in Loops : []<>(pc[t] = "recv")

\* C16: snapshot atomicity: from the moment CollectActiveUsers has started to
\* read the registry until it returns, no RegisterClient or DeregisterClient
\* changes the registry, so the list it returns is the membership (display
\* names with multiplicity) of the registry as it is at the instant of the
\* return, never a mix of two registry states.
C16_SnapshotAtomic ==
    [][/\ pc[N] = "collecting" => clients' = clients
       /\ (pc[N] = "collecting" /\ pc'[N] = "lock") =>
              activeUsers' = NamesOf(clients)]_vars

\* a snapshot of two clients is complete and about to be returned while a
\* DeregisterClient call of a reader or writer waits for the mutex
C16_Witness ==
    /\ pc[N] = "collecting"
    /\ RangeDone(N)
    /\ Cardinality(clients) = 2
    /\ \E t \in Tasks : pc[t] = "dereg_lock" /\ t \notin Loops

\* C17: a newly connected client sees itself online; in particular the client
\* is not dropped as unresponsive by a presence fan-out that runs between its
\* RegisterClient and the moment its writer goroutine first blocks on Send: the
\* notifier never passes to DeregisterClient a client whose writer goroutine
\* has been started but has not yet reached `<-client.Send`.
C17_NewClientNotDropped ==
    \A c \in Clients :
        ~(/\ pc[N] \in {"dereg_lock", "dereg_notify", "dereg_unlock"}
          /\ dropping[N] = c
          /\ pc[W(c)] = "started")

\* C18: server-anchored sender: the message the dispatcher accepts from a
\* reader carries as sender the display name of that reader's client, whatever
\* the inbound frame said, and every chat frame handed to a client carries the
\* sender of the message being fanned out.
C18_ServerAnchoredSender ==
    [][/\ \A s \in Clients :
              (pc[R(s)] = "bcast" /\ pc'[R(s)] = "read") =>
                  Message(dmsg').sender = displayName[s]
       /\ \A c \in Clients :
              (pc[W(c)] = "recv" /\ pc'[W(c)] = "write" /\ wframe'[c].type = "chat") =>
                  wframe'[c].sender = Message(dmsg).sender]_vars


\* C19 as stated: a Register request (a POST, as the route is used) for a
\* username that already exists answers 409 Conflict and leaves the stored
\* users unchanged, whatever the rest of the form holds.
C19_AnyFormConflicts ==
    [][\A u \in FormUsernames : \A p \in FormPasswords :
          (Register("POST", u, p) /\ u \in DOMAIN users)
             => (resp'.status = 409 /\ users' = users)]_vars

\* C19, amended: a Register for a username that already exists never stores
\* anything (the users, their ids, password hashes and tokens, and nextID stay
\* as they were) and never answers 201; it answers 409 Conflict when the
\* request is a POST whose password has at least 4 characters (a shorter
\* password is answered 406 and another method 405 before the lookup). A
\* direct SaveUser for a duplicate username returns an error and stores
\* nothing. In every state each stored user is filed under its own username
\* and the ids of the users are pairwise distinct.
C19_UsernameUnique ==
    /\ [](/\ \A n \in DOMAIN users : users[n].Username = n
          /\ \A n1, n2 \in DOMAIN users : users[n1].ID = users[n2].ID => n1 = n2)
    /\ [][/\ \A m \in Methods : \A u \in FormUsernames : \A p \in FormPasswords :
               (Register(m, u, p) /\ u \in DOMAIN users)
                  => /\ users' = users
                     /\ nextID' = nextID
                     /\ resp'.status # 201
                     /\ (m = "POST" /\ Len(p) >= 4) => resp'.status = 409
          /\ \A u \in StoredUsernames : \A p \in StoredPasswords :
               (DB_SaveUser(u, p) /\ u \in DOMAIN users)
                  => /\ resp'.err # "nil"
                     /\ users' = users
                     /\ nextID' = nextID]_vars

\* a Register has just been answered 409 while both usernames are taken and
\* both users hold the tokens of a login
C19_Witness ==
    /\ resp.handler = "Register"
    /\ resp.status = 409
    /\ DOMAIN users = StoredUsernames
    /\ \A n \in DOMAIN users :
          users[n].SessionToken # Empty /\ users[n].CSRFToken # Empty


\* the request that carries the cookies of the last response: the first as the
\* session_token cookie, the second as the CSRF token, in the header or in the
\* query parameter
CarriesIssued(inHeader) ==
    SessionRequest(resp.cookies[1].value,
                   IF inHeader THEN resp.cookies[2].value ELSE Empty,
                   IF inHeader THEN Empty ELSE resp.cookies[2].value)

\* C20: a POST LoginUser with a registered username and its password answers
\* 200, sets exactly two cookies, session_token and csrf_token, and stores
\* their two values as the user's session and CSRF tokens; a request that
\* carries the issued session cookie and the issued CSRF token (in the header
\* or in the query parameter) is then authorised by Authorise as that user
\* and as nobody else.
C20_LoginRoundTrip ==
    [][\A u \in FormUsernames : \A p \in FormPasswords :
          (/\ LoginUser("POST", u, p)
           /\ u \in DOMAIN users
           /\ checkPasswordHash(p, users[u].HashedPassword))
             => /\ resp'.status = 200
                /\ Len(resp'.cookies) = 2
                /\ resp'.cookies[1].name = "session_token"
                /\ resp'.cookies[2].name = "csrf_token"
                /\ resp'.cookies[1].value # Empty
                /\ resp'.cookies[2].value # Empty
                /\ users'[u].SessionToken = resp'.cookies[1].value
                /\ users'[u].CSRFToken = resp'.cookies[2].value
                /\ \A inHeader \in BOOLEAN :
                      /\ (Authorised(CarriesIssued(inHeader)) = {u})'
                      /\ (~MayBeRefused(CarriesIssued(inHeader)))']_vars

\* a login has just been answered 200 with two cookies while another user
\* holds the tokens of an earlier login
C20_Witness ==
    /\ resp.handler = "LoginUser"
    /\ resp.status = 200
    /\ Len(resp.cookies) = 2
    /\ \E u, v \in DOMAIN users :
          /\ u # v
          /\ users[u].SessionToken = resp.cookies[1].value
          /\ users[v].SessionToken # Empty
          /\ users[v].SessionToken # users[u].SessionToken


\* C21: a POST LoginUser with a username and a password (both given) answers
\* 401 whenever the username is not that of a stored user or the password
\* does not match the stored hash, over the mock and over the MySQL database,
\* and then no stored user changes.
C21_FailedLoginIs401 ==
    [][\A u \in FormUsernames \ {""} : \A p \in FormPasswords \ {""} :
          (/\ LoginUser("POST", u, p)
           /\ \/ u \notin DOMAIN users
              \/ ~checkPasswordHash(p, users[u].HashedPassword))
             => (resp'.status = 401 /\ users' = users)]_vars


\* Authorise rejects every request that presents the token t as its session
\* cookie, bare or surrounded by white space, whatever CSRF token it carries
RejectedWithAnyCsrf(t) ==
    \A session \in {t, Padded(t.text)} : \A h, q \in CsrfValues :
       Authorised(SessionRequest(session, h, q)) = {}

\* no user's stored session token is t
NobodyHolds(t) == \A n \in DOMAIN users : users[n].SessionToken # t

\* C22: a request Authorise can accept is never refused, and a LogoutUser that
\* is not answered 401 is answered 200, sets the two cookies to the empty
\* value and clears the stored session and CSRF tokens of the authorised user
\* and of nobody else. The session token it presented is then stored for no
\* user; a token stored for no user is never stored again (a later login
\* issues new tokens) and, in every state, is rejected by Authorise with
\* every CSRF token.
C22_LogoutEndsSession ==
    /\ [](/\ \A s \in SessionCookies : \A h, q \in CsrfValues :
               Authorised(SessionRequest(s, h, q)) # {}
                  => ~MayBeRefused(SessionRequest(s, h, q))
          /\ \A t \in IssuedTokens : NobodyHolds(t) => RejectedWithAnyCsrf(t))
    /\ [][/\ (resp'.handler = "LogoutUser" /\ resp'.status # 401)
               => \A m \in Methods : \A s \in SessionCookies : \A h, q \in CsrfValues :
                     LogoutUser(m, s, h, q)
                        => /\ resp'.status = 200
                           /\ resp'.cookies = <<Cookie("session_token", Empty),
                                                Cookie("csrf_token", Empty)>>
                           /\ \E n \in Authorised(SessionRequest(s, h, q)) :
                                 /\ users'[n].SessionToken = Empty
                                 /\ users'[n].CSRFToken = Empty
                                 /\ \A o \in DOMAIN users \ {n} : users'[o] = users[o]
                           /\ DOMAIN users' = DOMAIN users
                           /\ NobodyHolds(TrimSpace(s))'
          /\ \A t \in IssuedTokens : NobodyHolds(t) => NobodyHolds(t)'
         ]_vars

\* a logout has just been answered 200: one user logged in and out, the other
\* still holds the session of their own login
C22_Witness ==
    /\ resp.handler = "LogoutUser"
    /\ resp.status = 200
    /\ \E u, v \in DOMAIN users :
          /\ users[u].SessionToken = Empty
          /\ users[v].SessionToken # Empty
          /\ \E t \in IssuedTokens : t # users[v].SessionToken /\ t # users[v].CSRFToken


\* the users whose stored tokens the request carries: a non-empty session
\* cookie equal to the stored session token, and a non-empty CSRF token (the
\* header, else the query parameter) equal to the stored CSRF token
CarriesTokensOf(s, h, q) ==
    LET csrf == IF h # Empty THEN h ELSE q
    IN  {n \in DOMAIN users :
            /\ s \notin {NoCookie, Empty}
            /\ users[n].SessionToken = s
            /\ csrf # Empty
            /\ users[n].CSRFToken = csrf}

\* C23: Authorise succeeds exactly for the requests that carry the stored
\* session token and the stored CSRF token of one user, and returns that
\* user; for every other request it fails, LogoutUser and Profile answer 401,
\* and a request answered 401 changes no stored user.
C23_AuthoriseExactly ==
    /\ [](\A s \in SessionCookies : \A h, q \in CsrfValues :
             /\ Authorised(SessionRequest(s, h, q)) = CarriesTokensOf(s, h, q)
             /\ MayBeRefused(SessionRequest(s, h, q)) <=> CarriesTokensOf(s, h, q) = {})
    /\ [][/\ (resp'.handler \in {"LogoutUser", "Profile"} /\ resp'.status = 401)
               => users' = users
          /\ (resp'.handler \in {"LogoutUser", "Profile"} /\ resp'.status = 200)
               => \A m \in Methods : \A s \in SessionCookies : \A h, q \in CsrfValues :
                     (LogoutUser(m, s, h, q) \/ Profile(m, s, h, q))
                        => CarriesTokensOf(s, h, q) # {}
         ]_vars


\* the senders and contents of a sequence of messages, in order
SenderContent(seq) ==
    [i \in 1..Len(seq) |-> [sender |-> seq[i].sender, content |-> seq[i].content]]

\* the elements of the slice a GetChatHistory call made now would return
WouldReturn ==
    LET copied == CopySlice(messages)
    IN  IF copied.slice.len = 0 THEN <<>>
        ELSE SubSeq(copied.arrays[copied.slice.arr], 1, copied.slice.len)

\* C24: in every state a GetChatHistory call would return the messages passed
\* to SaveMessage since the last DeleteAllMessages (or since creation), in
\* that order and with their senders and contents (none right after
\* DeleteAllMessages); a GetChatHistory step hands the caller exactly these;
\* and when the caller writes into the slice it was handed, the stored
\* messages stay as they were.
C24_HistoryIsWhatWasSaved ==
    /\ [](SenderContent(WouldReturn) = SenderContent(savedMsgs))
    /\ [][/\ MockDB_GetChatHistory
               => SenderContent(Elems(history))' = SenderContent(savedMsgs)
          /\ MockDB_DeleteAllMessages => (WouldReturn = <<>>)'
          /\ (\E i \in 1..MaxStored : ChangeReturned(i))
               => /\ Elems(messages)' = Elems(messages)
                  /\ WouldReturn' = WouldReturn
         ]_vars

\* the caller has overwritten an element of a returned slice as long as the
\* stored history, which holds two messages or more, one with a zero timestamp
C24_Witness ==
    /\ messages.len >= 2
    /\ history.len = messages.len
    /\ \E i \in 1..history.len : Elems(history)[i] = Overwritten
    /\ \E i \in 1..Len(savedMsgs) : savedMsgs[i].timestamp = "zero"
    /\ \A i \in 1..messages.len : Elems(messages)[i] # Overwritten


\* C25: no task holds the registry mutex while it is handing a frame to a
\* client's Send channel in a fan-out loop, while it is blocked in a send on
\* notifyClients (the notifier not receiving), or while it writes to the wire.
C25_MutexOnlyAroundRegistry ==
    \A t \in Tasks :
       mutex = t
          => /\ ~(t \in Loops /\ pc[t] = "loop" /\ ~RangeDone(t))
             /\ ~(SendingSignal(t) /\ pc[N] # "recv")
             /\ pc[t] # "write"


\* C26: a drop during presence fan-out terminates: once the notifier has found
\* client c not ready and calls DeregisterClient(c), c is eventually out of
\* the registry with the notifier back in `for range notifyClients`, waiting
\* for the next signal.
C26_PresenceDropTerminates ==
    \A c \in Clients :
        (pc[N] = "dereg_lock" /\ dropping[N] = c)
            ~> (c \notin clients /\ pc[N] = "recv")


\* the reader of c is in its read loop; the writer goroutine of c has been
\* started and has not returned
ReaderLive(c) == pc[R(c)] \in {"read", "bcast"}
WriterLive(c) == pc[W(c)] \in {"started", "recv", "write"}

\* a RegisterClient(c) or DeregisterClient(c) call is under way
InRegistryCall(c) ==
    \/ pc[R(c)] \in {"reg_lock", "reg_notify", "reg_unlock"}
    \/ \E t \in Tasks :
          pc[t] \in {"dereg_lock", "dereg_notify", "dereg_unlock"} /\ TargetOf(t) = c

\* C27: registry membership tracks task liveness: outside the calls that
\* change the membership of c, client c is in the registry if and only if
\* its reader is in its read loop and its writer goroutine is running; in
\* particular neither the reader nor the writer of a client that is not in
\* the registry is still running.
C27_MembershipTracksLiveness ==
    \A c \in Clients :
       ~InRegistryCall(c)
          => /\ c \in clients <=> (ReaderLive(c) /\ WriterLive(c))
             /\ c \notin clients => (~ReaderLive(c) /\ ~WriterLive(c))

\* task t has changed the registry (RegisterClient added its client, or
\* DeregisterClient removed a member) and is at the send of the presence signal
SignalsChange(t) ==
    \/ pc[t] = "reg_notify"
    \/ pc[t] = "dereg_notify" /\ wasMember[t]

\* C28: every membership change triggers a presence recomputation: the task
\* that changed the registry sends its signal still holding the mutex, and
\* the signal is eventually consumed: the send completes, the notifier having
\* taken the signal to recompute the snapshot.
C28_SignalConsumed ==
    /\ [](\A t \in Tasks : SignalsChange(t) => mutex = t)
    /\ \A t \in Tasks : SignalsChange(t) ~> (pc[t] \in {"reg_unlock", "dereg_unlock"})


\* CollectActiveUsers has just returned a snapshot that lists exactly the
\* display names of the clients of S
SnapshotOf(S) == pc[N] = "lock" /\ activeUsers = NamesOf(S)

\* C29: presence converges after a burst: once a task has made the last change
\* of the registry (the registry stays at S from then on), the notifier
\* eventually completes a recomputation whose snapshot lists exactly S.
C29_PresenceConverges ==
    \A S \in SUBSET Clients :
        []( ((\E t \in Tasks : SignalsChange(t)) /\ [](clients = S))
              => <>SnapshotOf(S) )


\* C30: the outbound queue is a one-slot handoff: a client whose writer is
\* busy writing the previous frame to the wire (nothing else is waiting for
\* it) still takes the next frame, so neither the dispatcher nor the notifier
\* takes the default branch for it.
C30_BusyWriterNotDropped ==
    [][\A c \in Clients :
          (StartBroadcastListener_Drop(c) \/ StartNotifyActiveUsers_Drop(c))
              => pc[W(c)] # "write"]_vars


\* WriteMessage has failed in the writer of c: the writer is in its deferred
\* DeregisterClient, or has returned from it
WriteFailed(c) == pc[W(c)] \in {"dereg_lock", "dereg_notify", "dereg_unlock", "done"}

\* C31: a transport error on write is terminal for that connection: after
\* WriteMessage has failed nothing more is received from client.Send or
\* written to the connection, and the writer eventually stops with the client
\* out of the registry, whether or not the reader deregisters it as well.
C31_WriteErrorTerminal ==
    /\ [][\A c \in Clients :
             WriteFailed(c) => (wire'[c] = wire[c] /\ handed'[c] = handed[c]
                                 /\ WriteFailed(c)')]_vars
    /\ \A c \in Clients :
          (pc[W(c)] = "dereg_lock") ~> (pc[W(c)] = "done" /\ c \notin clients)


\* ReadJSON has failed in the reader of c: the reader is in DeregisterClient,
\* or has left its loop and closed the socket
ReadFailed(c) == pc[R(c)] \in {"dereg_lock", "dereg_notify", "dereg_unlock", "closed"}

\* C32: a parse or transport error on read is terminal for that connection:
\* after ReadJSON has failed the reader submits no further message, and it
\* eventually has deregistered its client and stopped.
C32_ReadErrorTerminal ==
    /\ [][\A c \in Clients :
             ReadFailed(c) => (ReadFailed(c)' /\ ~BroadcastMessage(c)
                                 /\ rmsg'[c] = rmsg[c])]_vars
    /\ \A c \in Clients :
          (pc[R(c)] = "dereg_lock") ~> (pc[R(c)] = "closed" /\ c \notin clients)


C34_OnlyMembersBroadcast ==
    [][\A c \in Clients : BroadcastMessage(c) => c \in clients]_vars


\* the dispatcher or the notifier is between the mutex.Lock() and the
\* mutex.Unlock() of its fan-out
InFanout(t) == pc[t] \in {"loop", "dereg_lock", "dereg_notify", "dereg_unlock"}

\* C35: fan-outs are mutually exclusive: the dispatcher and the notifier are
\* never both inside their fan-out loops, and whichever is inside holds the
\* mutex, so a client's Send channel has one producer at a time.
C35_FanoutsExclusive ==
    /\ ~(InFanout(D) /\ InFanout(N))
    /\ \A t \in Loops : InFanout(t) => mutex = t

\* the dispatcher is half way through the fan-out of a chat message to two
\* clients while the notifier, its snapshot ready, waits for the mutex
C35_Witness ==
    /\ pc[D] = "loop"
    /\ pc[N] = "lock"
    /\ Cardinality(clients) = 2
    /\ \E a \in clients : \E b \in clients \ {a} :
          /\ wframe[a] = ChatFrame(dmsg)
          /\ b \in RangeClients(D)


\* the (session cookie, CSRF token) pairs with which Authorise returns user n
PairsOf(n) ==
    {sc \in SessionCookies \X CsrfValues :
        n \in Authorised(SessionRequest(sc[1], sc[2], Empty))}

\* C36: one live session per user: at every moment at most one (session
\* token, CSRF token) pair authorises as a given user, and after a successful
\* LoginUser no pair that authorised as that user before the login still does.
C36_OneLiveSession ==
    /\ [](\A n \in DOMAIN users : Cardinality(PairsOf(n)) <= 1)
    /\ [][(resp'.handler = "LoginUser" /\ resp'.status = 200) =>
             \A n \in DOMAIN users :
                 users'[n] # users[n] => PairsOf(n) \cap PairsOf(n)' = {}]_vars


\* C37: MockDB.GetUserBySessionToken returns a user only if the token argument
\* equals that user's stored, non-empty session token: for every argument,
\* empty and white-space-only ones included, it returns no user whose session
\* is cleared or who never logged in, and no user for a token that differs
\* from the stored one.
C37_LookupIsExact ==
    db = "MockDB" =>
        \A t \in SessionCookies \ {NoCookie} :
            \A n \in GetUserBySessionToken(t) :
                /\ users[n].SessionToken # Empty
                /\ users[n].SessionToken = t

====
